---- MODULE Spec2Model ----
(***************************************************************************)
(* Model of the expression builder (src/src/App.tsx): the expression node  *)
(* constructors, the operator classification predicates, the source        *)
(* compiler buildSource and the rule assembly buildRuleExpression.         *)
(*                                                                         *)
(* JavaScript strings are sequences of one-character strings, so that      *)
(* template literals, join, toString, toUpperCase and substring are        *)
(* computed character by character.  A JavaScript value of a literal is a  *)
(* record tagged with its runtime type (typeof).                           *)
(***************************************************************************)
EXTENDS Integers, Sequences, FiniteSets, TLC

VARIABLES input, tree, last, rootExpression, previous

coreVars == <<input, tree, last>>

editorVars == <<rootExpression, previous>>

vars == <<input, tree, last, rootExpression, previous>>

(***************************************************************************)
(* Bounds of the exploration.                                              *)
(***************************************************************************)
\* longest operand / argument list handed to a constructor
MaxOperands == 3
\* most nodes the tree under edit may hold
MaxEditorNodes == 4

(***************************************************************************)
(* Types (App.tsx lines 3-9).                                              *)
(***************************************************************************)
DataType == {"number", "string", "boolean"}

BooleanOperators ==
  { <<">">>, <<">", "=">>, <<"<">>, <<"<", "=">>, <<"=", "=">>, <<"!", "=">>,
    <<"a", "n", "d">>, <<"o", "r">> }

ArithmeticOperators == { <<"+">>, <<"-">>, <<"*">>, <<"/">> }

OperationOperator == BooleanOperators \cup ArithmeticOperators

(***************************************************************************)
(* JavaScript values and string primitives.                                *)
(***************************************************************************)
StringValue(s) == [typeof |-> "string", chars |-> s]

NumberValue(n) == [typeof |-> "number", num |-> n]

BooleanValue(b) == [typeof |-> "boolean", bool |-> b]

\* Array.prototype.includes
includes(arr, x) == \E i \in 1..Len(arr) : arr[i] = x

\* Array.prototype.slice(begin, end) with 0 <= begin <= end (0-based, end exclusive)
slice(arr, begin, end) ==
  LET hi == IF end < Len(arr) THEN end ELSE Len(arr)
  IN  [i \in 1..(IF hi > begin THEN hi - begin ELSE 0) |-> arr[begin + i]]

\* Array.prototype.join on an array of strings
RECURSIVE join(_, _)
join(arr, sep) ==
  IF Len(arr) = 0 THEN <<>>
  ELSE IF Len(arr) = 1 THEN arr[1]
  ELSE arr[1] \o sep \o join(Tail(arr), sep)

Digit(d) == <<"0", "1", "2", "3", "4", "5", "6", "7", "8", "9">>[d + 1]

RECURSIVE digits(_)
digits(n) == IF n < 10 THEN <<Digit(n)>> ELSE digits(n \div 10) \o <<Digit(n % 10)>>

\* Number.prototype.toString for integers
numberToString(n) == IF n < 0 THEN <<"-">> \o digits(0 - n) ELSE digits(n)

\* Boolean.prototype.toString
booleanToString(b) == IF b THEN <<"t", "r", "u", "e">> ELSE <<"f", "a", "l", "s", "e">>

\* String.prototype.toUpperCase on one character
toUpperCase(c) ==
  CASE c = "t" -> "T"
    [] c = "f" -> "F"
    [] c = "a" -> "A"
    [] c = "e" -> "E"
    [] c = "l" -> "L"
    [] c = "r" -> "R"
    [] c = "s" -> "S"
    [] c = "u" -> "U"
    [] OTHER -> c

\* String.prototype.substring(begin)
substring(s, begin) == [i \in 1..(Len(s) - begin) |-> s[begin + i]]

\* the text a template literal gives for the value undefined
undefinedText == <<"u", "n", "d", "e", "f", "i", "n", "e", "d">>

(***************************************************************************)
(* Operator classification (App.tsx lines 70-80).                          *)
(***************************************************************************)
isUnaryOperator(operator) == operator = <<"-">>

\* the arithmetic list with "/" left out
isArithmeticOperatorShort(operator) ==
  includes(<< <<"+">>, <<"-">>, <<"*">> >>, operator)

isArithmeticOperator(operator) ==
  includes(<< <<"+">>, <<"-">>, <<"*">>, <<"/">> >>, operator)

isBooleanOperator(operator) == ~isArithmeticOperator(operator)

(***************************************************************************)
(* Source compiler (App.tsx lines 82-125).  The result of a call is a      *)
(* record: threw = FALSE with the returned text in value, or threw = TRUE  *)
(* with the message of the Error thrown; console lists, in order, the      *)
(* messages of the console.assert calls whose condition was false.         *)
(***************************************************************************)
Returned(text, log) == [threw |-> FALSE, value |-> text, console |-> log]

Thrown(msg, log) == [threw |-> TRUE, error |-> msg, console |-> log]

\* the function case joining with "," alone
functionSourceTight(name, args) == name \o <<"(">> \o join(args, <<",">>) \o <<")">>

\* case "function", line 86: `${e.name}(${args.join(", ")})`
functionSource(name, args) == name \o <<"(">> \o join(args, <<",", " ">>) \o <<")">>

\* the literal case with true/false left in lower case
literalSourceLower(e) ==
  IF e.value.typeof = "string" THEN <<"\"">> \o e.value.chars \o <<"\"">>
  ELSE IF e.value.typeof = "number" THEN numberToString(e.value.num)
  ELSE booleanToString(e.value.bool)

\* String(value)
valueToString(value) ==
  IF value.typeof = "string" THEN value.chars
  ELSE IF value.typeof = "number" THEN numberToString(value.num)
  ELSE booleanToString(value.bool)

\* the literal case dispatching on the declared return, as the editor's display does
literalSourceByReturn(e) ==
  LET form == valueToString(e.value)
  IN  IF e.return = "string" THEN <<"\"">> \o form \o <<"\"">>
      ELSE IF e.return = "number" THEN form
      ELSE <<toUpperCase(form[1])>> \o substring(form, 1)

\* case "literal", lines 90-101
literalSource(e) ==
  IF e.value.typeof = "string" THEN <<"\"">> \o e.value.chars \o <<"\"">>
  ELSE IF e.value.typeof = "number" THEN numberToString(e.value.num)
  ELSE LET form == booleanToString(e.value.bool)
       IN  <<toUpperCase(form[1])>> \o substring(form, 1)

\* the operation case without the slice
consideredOperandsAll(operands) == operands

\* case "operation", line 105: e.operands.slice(0, 2)
consideredOperands(operands) == slice(operands, 0, 2)

\* case "operation", lines 110 and 113: console.assert only logs
operationAsserts(operator, operands) ==
  IF isUnaryOperator(operator)
  THEN IF Len(operands) = 1 THEN <<>> ELSE << "Unary operation requires one operand" >>
  ELSE IF Len(operands) = 2 THEN <<>> ELSE << "Binary operation requires two operands" >>

\* the operation case with a space after a unary operator
operationSourceSpaced(operator, operands) ==
  IF isUnaryOperator(operator)
  THEN <<"(">> \o operator \o <<" ">>
         \o (IF Len(operands) >= 1 THEN operands[1] ELSE undefinedText) \o <<")">>
  ELSE <<"(">> \o join(operands, <<" ">> \o operator \o <<" ">>) \o <<")">>

\* case "operation", lines 107-114, on the compiled operands
operationSource(operator, operands) ==
  IF isUnaryOperator(operator)
  THEN <<"(">> \o operator
         \o (IF Len(operands) >= 1 THEN operands[1] ELSE undefinedText) \o <<")">>
  ELSE <<"(">> \o join(operands, <<" ">> \o operator \o <<" ">>) \o <<")">>

\* the default case returning an empty text instead of throwing
invalidExpressionIgnored == Returned(<<>>, <<>>)

\* default, line 122
invalidExpression == Thrown("Invalid expression type", <<>>)

RECURSIVE buildSource(_)
RECURSIVE mapBuildSource(_)

\* Array.prototype.map(buildSource): left to right, the first throw ends it
mapBuildSource(es) ==
  IF Len(es) = 0 THEN [threw |-> FALSE, values |-> <<>>, console |-> <<>>]
  ELSE LET h == buildSource(Head(es))
       IN  IF h.threw THEN h
           ELSE LET t == mapBuildSource(Tail(es))
                IN  IF t.threw THEN Thrown(t.error, h.console \o t.console)
                    ELSE [threw |-> FALSE, values |-> <<h.value>> \o t.values,
                          console |-> h.console \o t.console]

buildSource(e) ==
  CASE e.type = "function" ->
         LET args == mapBuildSource(e.args)
         IN  IF args.threw THEN args
             ELSE Returned(functionSource(e.name, args.values), args.console)
    [] e.type = "literal" -> Returned(literalSource(e), <<>>)
    [] e.type = "operation" ->
         LET operands == mapBuildSource(consideredOperands(e.operands))
         IN  IF operands.threw THEN operands
             ELSE Returned(operationSource(e.operator, operands.values),
                           operands.console \o operationAsserts(e.operator, operands.values))
    [] e.type = "variable" -> Returned(e.name, <<>>)
    [] OTHER -> invalidExpression

(***************************************************************************)
(* Rule assembly (App.tsx lines 127-137).  A throw of buildSource leaves   *)
(* no record.                                                              *)
(***************************************************************************)
\* the source field left empty
ruleSourceEmpty(e) == Returned(<<>>, <<>>)

\* line 134
ruleSource(e) == buildSource(e)

\* line 135
ruleTree(e) == e

buildRuleExpression(e, id, priority) ==
  LET src == ruleSource(e)
  IN  IF src.threw THEN src
      ELSE [threw |-> FALSE, console |-> src.console,
            value |-> [id |-> id, priority |-> priority, source |-> src.value,
                       tree |-> ruleTree(e)]]

(***************************************************************************)
(* Constructors (App.tsx lines 141-184) and the editor's placeholder node  *)
(* (components/expression, createEmptyExpression), which the editor casts  *)
(* to Expression.                                                          *)
(***************************************************************************)
createLiteral(value, returnType) ==
  [type |-> "literal", value |-> value, return |-> returnType]

createVariable(name, returnType) ==
  [type |-> "variable", name |-> name, return |-> returnType]

createFunction(name, args, returnType) ==
  [type |-> "function", name |-> name, args |-> args, return |-> returnType]

\* the return derived with the two families swapped
operationReturnSwapped(operator) ==
  IF isBooleanOperator(operator) THEN "number" ELSE "boolean"

\* line 182
operationReturn(operator) == IF isBooleanOperator(operator) THEN "boolean" ELSE "number"

createOperation(operator, operands) ==
  [type |-> "operation", operator |-> operator, operands |-> operands,
   return |-> operationReturn(operator)]

createEmptyExpression == [type |-> "empty"]

(***************************************************************************)
(* The caller.  input is the constructor call it makes, with its           *)
(* arguments; tree is the expression that call returned (NoTree before     *)
(* it); last records the latest call and what it returned.  The children   *)
(* handed to createFunction and createOperation are lists over             *)
(* ChildInputs, expressions built with the constructors.                   *)
(***************************************************************************)
NameInputs == { <<"x">>, <<"a", "v", "g">> }

StringInputs == { <<>>, <<"a", "b">>, <<"a", "\"", "b">> }

NumberInputs == { 0, 7, 10, 0 - 5, 123 }

LiteralValueInputs ==
  {StringValue(s) : s \in StringInputs} \cup {NumberValue(n) : n \in NumberInputs}
    \cup {BooleanValue(b) : b \in BOOLEAN}

\* symbols of the editor's operator menu that are not an OperationOperator
UnrecognizedOperators == { <<"!">>, <<"%">>, <<"&", "&">> }

OperatorInputs == OperationOperator \cup UnrecognizedOperators

IdInputs == {"r1", "r2"}

PriorityInputs == {0, 5}

price == createVariable(<<"p", "r", "i", "c", "e">>, "number")

ten == createLiteral(NumberValue(10), "number")

product == createLiteral(StringValue(<<"p", "r", "o", "d">>), "string")

ChildInputs ==
  { price, ten,
    createEmptyExpression,
    createOperation(<<"-">>, <<ten>>),
    createFunction(<<"a", "v", "g">>,
                   <<createOperation(<<"+">>, <<price, ten>>), product>>, "number"),
    createFunction(<<"f">>, <<createEmptyExpression>>, "string") }

RECURSIVE ListsUpTo(_, _)
\* the lists of at most n elements of S
ListsUpTo(S, n) ==
  IF n = 0 THEN { <<>> }
  ELSE LET shorter == ListsUpTo(S, n - 1)
       IN  shorter \cup { Append(l, x) : l \in {m \in shorter : Len(m) = n - 1}, x \in S }

ChildLists == ListsUpTo(ChildInputs, MaxOperands)

NoTree == [type |-> "none"]

Inputs ==
  [call : {"createLiteral"}, value : LiteralValueInputs, returnType : DataType]
    \cup [call : {"createVariable"}, name : NameInputs, returnType : DataType]
    \cup [call : {"createEmptyExpression"}]
    \cup [call : {"createFunction"}, name : NameInputs, args : ChildLists,
          returnType : DataType]
    \cup [call : {"createOperation"}, operator : OperatorInputs, operands : ChildLists]

Init ==
  /\ input \in Inputs
  /\ tree = NoTree
  /\ last = [call |-> "none"]
  /\ rootExpression = createEmptyExpression
  /\ previous = NoTree

Construct(node) ==
  /\ tree' = node
  /\ last' = [call |-> input.call, ret |-> node]
  /\ UNCHANGED <<input, editorVars>>

CreateLiteral ==
  /\ input.call = "createLiteral"
  /\ Construct(createLiteral(input.value, input.returnType))

CreateVariable ==
  /\ input.call = "createVariable"
  /\ Construct(createVariable(input.name, input.returnType))

CreateEmptyExpression ==
  /\ input.call = "createEmptyExpression"
  /\ Construct(createEmptyExpression)

CreateFunction ==
  /\ input.call = "createFunction"
  /\ Construct(createFunction(input.name, input.args, input.returnType))

CreateOperation ==
  /\ input.call = "createOperation"
  /\ Construct(createOperation(input.operator, input.operands))

BuildSource ==
  /\ tree # NoTree
  /\ last' = [call |-> "buildSource", arg |-> tree, ret |-> buildSource(tree)]
  /\ UNCHANGED <<input, tree, editorVars>>

BuildRuleExpression ==
  /\ tree # NoTree
  /\ \E id \in IdInputs, priority \in PriorityInputs :
       last' = [call |-> "buildRuleExpression", arg |-> tree, id |-> id,
                priority |-> priority, ret |-> buildRuleExpression(tree, id, priority)]
  /\ UNCHANGED <<input, tree, editorVars>>

IsUnaryOperator ==
  /\ tree.type = "operation"
  /\ last' = [call |-> "isUnaryOperator", arg |-> tree.operator,
              ret |-> isUnaryOperator(tree.operator)]
  /\ UNCHANGED <<input, tree, editorVars>>

IsArithmeticOperator ==
  /\ tree.type = "operation"
  /\ last' = [call |-> "isArithmeticOperator", arg |-> tree.operator,
              ret |-> isArithmeticOperator(tree.operator)]
  /\ UNCHANGED <<input, tree, editorVars>>

IsBooleanOperator ==
  /\ tree.type = "operation"
  /\ last' = [call |-> "isBooleanOperator", arg |-> tree.operator,
              ret |-> isBooleanOperator(tree.operator)]
  /\ UNCHANGED <<input, tree, editorVars>>

Next ==
  \/ CreateLiteral
  \/ CreateVariable
  \/ CreateEmptyExpression
  \/ CreateFunction
  \/ CreateOperation
  \/ BuildSource
  \/ BuildRuleExpression
  \/ IsUnaryOperator
  \/ IsArithmeticOperator
  \/ IsBooleanOperator

Spec == Init /\ [][Next]_vars

(***************************************************************************)
(* The editor (components/expression).  Its nodes carry no return field,   *)
(* except literals; its own isUnaryOperator differs from the compiler's.   *)
(* rootExpression is the state of ExpressionBuilder.  previous is the root *)
(* object held before the latest handler ran, as it reads after it: the    *)
(* handlers share child arrays with it, so an in-place change of an array  *)
(* shows there.  Indices are 1-based here (index 0 of the code is 1).      *)
(***************************************************************************)
\* line 34
editor_isUnaryOperator(op) ==
  includes(<< <<"!">>, <<"-">>, <<"+">>, <<"t", "y", "p", "e", "o", "f">> >>, op)

\* lines 38-45
editor_createLiteral(value) ==
  [type |-> "literal", value |-> value, return |-> value.typeof]

\* lines 47-50
editor_createVariable(name) == [type |-> "variable", name |-> name]

\* lines 52-56
editor_createOperation(operator, operands) ==
  [type |-> "operation", operator |-> operator, operands |-> operands]

\* lines 58-62
editor_createFunction(name, args) == [type |-> "function", name |-> name, args |-> args]

\* Array.prototype.filter((_, i) => i !== index)
filterOut(arr, index) ==
  [i \in 1..(Len(arr) - 1) |-> IF i < index THEN arr[i] ELSE arr[i + 1]]

\* Array.prototype.splice(index): removes the elements from index on from the
\* array itself and returns them
splice(arr, index) ==
  [removed |-> SubSeq(arr, index, Len(arr)), array |-> SubSeq(arr, 1, index - 1)]

\* Number(value) of the text of an input field
Number(value) ==
  IF \A i \in 1..Len(value) : \E d \in 0..9 : Digit(d) = value[i]
  THEN LET RECURSIVE parse(_)
           parse(v) == IF Len(v) = 0 THEN 0
                       ELSE 10 * parse(SubSeq(v, 1, Len(v) - 1))
                              + (CHOOSE d \in 0..9 : Digit(d) = v[Len(v)])
       IN  NumberValue(parse(value))
  ELSE [typeof |-> "number", nan |-> TRUE]

\* String.prototype.toLowerCase on one character
toLowerCase(c) ==
  CASE c = "T" -> "t"
    [] c = "R" -> "r"
    [] c = "U" -> "u"
    [] c = "E" -> "e"
    [] OTHER -> c

\* EmptyExpressionNode.handleSelectType, lines 112-131: the node given to onUpdate
handleSelectType(type) ==
  CASE type = "literal" -> editor_createLiteral(StringValue(<<>>))
    [] type = "variable" ->
         editor_createVariable(<<"v", "a", "r", "i", "a", "b", "l", "e">>)
    [] type = "operation" ->
         editor_createOperation(<<"+">>, <<createEmptyExpression, createEmptyExpression>>)
    [] type = "function" ->
         editor_createFunction(<<"f", "u", "n", "c", "t", "i", "o", "n">>, <<>>)

\* FunctionExpressionNode.handleNameSave, lines 187-195
handleNameSave(exp, functionName) == [exp EXCEPT !.name = functionName]

\* FunctionExpressionNode.handleArgUpdate, lines 197-206
handleArgUpdate(exp, index, newArg) == [exp EXCEPT !.args = [@ EXCEPT ![index] = newArg]]

\* FunctionExpressionNode.handleArgDelete, lines 208-216
handleArgDelete(exp, index) == [exp EXCEPT !.args = filterOut(@, index)]

\* FunctionExpressionNode.addArgument, lines 218-225
addArgument(exp) == [exp EXCEPT !.args = @ \o <<createEmptyExpression>>]

\* LiteralExpressionNode.handleSave, lines 351-368
literal_handleSave(value, type) ==
  LET typedValue ==
        IF type = "number" THEN Number(value)
        ELSE IF type = "boolean"
             THEN BooleanValue([i \in 1..Len(value) |-> toLowerCase(value[i])]
                                 = <<"t", "r", "u", "e">>)
             ELSE StringValue(value)
  IN  [type |-> "literal", value |-> typedValue, return |-> type]

\* VariableExpressionNode.handleSave, lines 456-464
variable_handleSave(variableName) == [type |-> "variable", name |-> variableName]

\* OperationExpressionNode.handleSave, lines 550-571
operation_handleSave(exp, operator) ==
  LET isUnary == editor_isUnaryOperator(exp.operator)
      newIsUnary == editor_isUnaryOperator(operator)
      newOperands ==
        IF isUnary /\ ~newIsUnary THEN exp.operands \o <<createEmptyExpression>>
        ELSE IF ~isUnary /\ newIsUnary THEN <<exp.operands[1]>>
        ELSE exp.operands
  IN  [exp EXCEPT !.operator = operator, !.operands = newOperands]

\* OperationExpressionNode.handleOperandUpdate, lines 573-582
handleOperandUpdate(exp, index, newOperand) ==
  [exp EXCEPT !.operands = [@ EXCEPT ![index] = newOperand]]

\* OperationExpressionNode.handleOperandDelete, lines 584-592: update is the
\* node given to onUpdate, mutated is exp as it reads after the splice
handleOperandDelete(exp, index) ==
  LET spliced == splice(exp.operands, index)
  IN  [update |-> [exp EXCEPT !.operands = spliced.removed],
       mutated |-> [exp EXCEPT !.operands = spliced.array]]

\* the child list of a node
Children(e) ==
  IF e.type = "function" THEN e.args
  ELSE IF e.type = "operation" THEN e.operands
  ELSE <<>>

\* the children a node's component renders: every argument of a function
\* (lines 292-305); operand 0 of an operation the editor takes for unary,
\* operands 0 and 1 of any other (lines 653-698)
RenderedIndices(e) ==
  IF e.type = "function" THEN 1..Len(e.args)
  ELSE IF e.type = "operation"
       THEN (IF editor_isUnaryOperator(e.operator) THEN {1} ELSE {1, 2})
       ELSE {}

RECURSIVE Renders(_)
\* ExpressionNode renders e: reading exp.type of a missing operand throws
Renders(e) ==
  \A i \in RenderedIndices(e) : i <= Len(Children(e)) /\ Renders(Children(e)[i])

RECURSIVE RenderedPaths(_)
\* the positions of the nodes on screen, each a list of child indices from e
RenderedPaths(e) ==
  { <<>> } \cup UNION { { <<i>> \o p : p \in RenderedPaths(Children(e)[i]) } :
                        i \in RenderedIndices(e) }

RECURSIVE NodeAt(_, _)
NodeAt(e, path) ==
  IF Len(path) = 0 THEN e ELSE NodeAt(Children(e)[Head(path)], Tail(path))

RECURSIVE EditorNodes(_)
RECURSIVE EditorNodesOf(_)

EditorNodesOf(es) ==
  IF Len(es) = 0 THEN 0 ELSE EditorNodes(Head(es)) + EditorNodesOf(Tail(es))

\* number of nodes of a tree
EditorNodes(e) == 1 + EditorNodesOf(Children(e))

RECURSIVE onUpdate(_, _, _)
\* the onUpdate chain from the node at path up to the root: every ancestor's
\* handleArgUpdate / handleOperandUpdate (lines 298, 664, 676, 691), and
\* handleExpressionUpdate at the root (lines 708-710)
onUpdate(e, path, newExp) ==
  IF Len(path) = 0 THEN newExp
  ELSE LET index == Head(path)
           child == onUpdate(Children(e)[index], Tail(path), newExp)
       IN  IF e.type = "function" THEN handleArgUpdate(e, index, child)
           ELSE handleOperandUpdate(e, index, child)

RECURSIVE ReadThrough(_, _, _)
\* the object graph of e read again after the node object at path has become
\* `now`
ReadThrough(e, path, now) ==
  IF Len(path) = 0 THEN now
  ELSE LET index == Head(path)
           child == ReadThrough(Children(e)[index], Tail(path), now)
       IN  IF e.type = "function" THEN [e EXCEPT !.args[index] = child]
           ELSE [e EXCEPT !.operands[index] = child]

\* symbols of the operator menu (lines 531-548) the user picks from
OperatorMenuInputs == { <<"+">>, <<"-">>, <<"*">> }

FunctionNameInputs == { <<"a", "v", "g">> }

VariableNameInputs == { <<"x">> }

\* text and type of the literal form
LiteralFormInputs ==
  { << <<"7">>, "number" >>, << <<>>, "number" >>, << <<"T", "r", "u", "e">>, "boolean" >> }

SelectableTypes == {"literal", "variable", "operation", "function"}

OnScreen == IF Renders(rootExpression) THEN RenderedPaths(rootExpression) ELSE {}

\* setRootExpression(newRoot); unchangedRoot is the old root as it reads now
SetRoot(newRoot, oldRootNow) ==
  /\ EditorNodes(newRoot) <= MaxEditorNodes
  /\ rootExpression' = newRoot
  /\ previous' = oldRootNow
  /\ UNCHANGED coreVars

Edit(path, newExp) == SetRoot(onUpdate(rootExpression, path, newExp), rootExpression)

EditorInit ==
  /\ input = [call |-> "createEmptyExpression"]
  /\ tree = NoTree
  /\ last = [call |-> "none"]
  /\ rootExpression = createEmptyExpression
  /\ previous = NoTree

HandleSelectType ==
  \E path \in OnScreen, type \in SelectableTypes :
    /\ NodeAt(rootExpression, path).type = "empty"
    /\ Edit(path, handleSelectType(type))

HandleNameSave ==
  \E path \in OnScreen, functionName \in FunctionNameInputs :
    /\ NodeAt(rootExpression, path).type = "function"
    /\ Edit(path, handleNameSave(NodeAt(rootExpression, path), functionName))

AddArgument ==
  \E path \in OnScreen :
    /\ NodeAt(rootExpression, path).type = "function"
    /\ Edit(path, addArgument(NodeAt(rootExpression, path)))

LiteralHandleSave ==
  \E path \in OnScreen, form \in LiteralFormInputs :
    /\ NodeAt(rootExpression, path).type = "literal"
    /\ Edit(path, literal_handleSave(form[1], form[2]))

VariableHandleSave ==
  \E path \in OnScreen, variableName \in VariableNameInputs :
    /\ NodeAt(rootExpression, path).type = "variable"
    /\ Edit(path, variable_handleSave(variableName))

OperationHandleSave ==
  \E path \in OnScreen, operator \in OperatorMenuInputs :
    /\ NodeAt(rootExpression, path).type = "operation"
    /\ Edit(path, operation_handleSave(NodeAt(rootExpression, path), operator))

\* the delete button of the root node (lines 712-714)
HandleExpressionDelete ==
  /\ Renders(rootExpression)
  /\ rootExpression.type # "empty"
  /\ SetRoot(createEmptyExpression, rootExpression)

\* the delete button of a node on screen that is not an empty slot, below parent
Deletable(parent, index) ==
  /\ parent \in OnScreen
  /\ index \in RenderedIndices(NodeAt(rootExpression, parent))
  /\ NodeAt(rootExpression, parent \o <<index>>).type # "empty"

HandleArgDelete ==
  \E parent \in OnScreen, index \in 1..MaxEditorNodes :
    /\ NodeAt(rootExpression, parent).type = "function"
    /\ Deletable(parent, index)
    /\ Edit(parent, handleArgDelete(NodeAt(rootExpression, parent), index))

HandleOperandDelete ==
  \E parent \in OnScreen, index \in 1..2 :
    /\ NodeAt(rootExpression, parent).type = "operation"
    /\ Deletable(parent, index)
    /\ LET done == handleOperandDelete(NodeAt(rootExpression, parent), index)
       IN  SetRoot(onUpdate(rootExpression, parent, done.update),
                   ReadThrough(rootExpression, parent, done.mutated))

EditorNext ==
  \/ HandleSelectType
  \/ HandleNameSave
  \/ AddArgument
  \/ LiteralHandleSave
  \/ VariableHandleSave
  \/ OperationHandleSave
  \/ HandleExpressionDelete
  \/ HandleArgDelete
  \/ HandleOperandDelete

SpecEditor == EditorInit /\ [][EditorNext]_vars

(***************************************************************************)
(* Properties.                                                             *)
(***************************************************************************)
Compiled == last.call = "buildSource"

\* C1: every record buildRuleExpression returns carries the id and priority
\* it was given, the tree it was given, and as source the text buildSource
\* returns for that stored tree.
C1_SourceMatchesTree ==
  (last.call = "buildRuleExpression" /\ ~last.ret.threw) =>
    /\ last.ret.value.tree = last.arg
    /\ ~buildSource(last.ret.value.tree).threw
    /\ last.ret.value.source = buildSource(last.ret.value.tree).value
    /\ last.ret.value.id = last.id
    /\ last.ret.value.priority = last.priority

C1_Witness ==
  /\ last.call = "buildRuleExpression"
  /\ ~last.ret.threw
  /\ last.id = "r1"
  /\ last.priority = 5
  /\ last.ret.value.tree.type = "operation"
  /\ Len(last.ret.value.tree.operands) = 2
  /\ last.ret.value.tree.operands[1].type = "function"
  /\ Len(last.ret.value.source) > 10

\* the operand count of an Operation disagrees with its operator's arity in
\* one of the two ways the claim names
ArityDisagrees(e) ==
  /\ e.type = "operation"
  /\ \/ e.operator = <<"-">> /\ Len(e.operands) = 2
     \/ e.operator \in OperationOperator \ { <<"-">> } /\ Len(e.operands) = 1

\* C2: compiling an Operation with operator "-" and two operands, or with a
\* binary operator and one operand, fails (throws) instead of returning text.
C2_ArityMismatchSignalled ==
  (Compiled /\ ArityDisagrees(last.arg)) => last.ret.threw

\* C3: on the recognized operators, isArithmeticOperator is true exactly for
\* + - * /, isBooleanOperator exactly for the comparison and logical operators,
\* exactly one of the two is true, and isUnaryOperator is true exactly for "-".
C3_OperatorPartition ==
  /\ (last.call = "isArithmeticOperator" /\ last.arg \in OperationOperator) =>
       last.ret = (last.arg \in ArithmeticOperators)
  /\ (last.call = "isBooleanOperator" /\ last.arg \in OperationOperator) =>
       last.ret = (last.arg \in BooleanOperators)
  /\ (last.call = "isUnaryOperator" /\ last.arg \in OperationOperator) =>
       last.ret = (last.arg = <<"-">>)
  /\ (tree.type = "operation" /\ tree.operator \in OperationOperator) =>
       isArithmeticOperator(tree.operator) # isBooleanOperator(tree.operator)

C3_Witness ==
  /\ last.call = "isArithmeticOperator"
  /\ last.arg = <<"/">>
  /\ last.ret = TRUE

\* the operand count an operator requires: one when unary, two otherwise
RequiredOperands(operator) == IF operator = <<"-">> THEN 1 ELSE 2

\* every one of the listed expressions compiles to a text
AllCompile(es) == \A i \in 1..Len(es) : ~buildSource(es[i]).threw

Text(e) == buildSource(e).value

\* C4: an Operation with the operand count its operator requires, whose
\* operands compile, compiles to "(" op operand ")" without a space when unary
\* and to "(" left " " op " " right ")" when binary.
C4_OperationRendering ==
  (/\ Compiled
   /\ last.arg.type = "operation"
   /\ Len(last.arg.operands) = RequiredOperands(last.arg.operator)
   /\ AllCompile(last.arg.operands)) =>
    /\ ~last.ret.threw
    /\ last.ret.value =
         IF last.arg.operator = <<"-">>
         THEN <<"(">> \o last.arg.operator \o Text(last.arg.operands[1]) \o <<")">>
         ELSE <<"(">> \o Text(last.arg.operands[1]) \o <<" ">> \o last.arg.operator
                \o <<" ">> \o Text(last.arg.operands[2]) \o <<")">>
    /\ (last.arg.operator = <<"-">> /\ last.arg.operands = <<ten>>) =>
         last.ret.value = <<"(", "-", "1", "0", ")">>
    /\ (last.arg.operator = <<"+">> /\ last.arg.operands = <<price, ten>>) =>
         last.ret.value = <<"(", "p", "r", "i", "c", "e", " ", "+", " ", "1", "0", ")">>

C4_Witness ==
  /\ Compiled
  /\ last.arg.type = "operation"
  /\ last.arg.operator = <<">", "=">>
  /\ Len(last.arg.operands) = 2
  /\ last.arg.operands[1].type = "operation"
  /\ last.arg.operands[2].type = "function"
  /\ ~last.ret.threw

C4_WitnessUnary ==
  /\ Compiled
  /\ last.arg.type = "operation"
  /\ last.arg.operator = <<"-">>
  /\ last.arg.operands = <<ten>>
  /\ last.ret.value = <<"(", "-", "1", "0", ")">>

RecognizedTags == {"function", "operation", "literal", "variable"}

RECURSIVE ReachesInvalid(_)
\* buildSource, walking e, reaches a node whose tag is not a recognized one:
\* every argument of a function is visited, and the first two operands of an
\* operation
ReachesInvalid(e) ==
  \/ e.type \notin RecognizedTags
  \/ /\ e.type = "function"
     /\ \E i \in 1..Len(e.args) : ReachesInvalid(e.args[i])
  \/ /\ e.type = "operation"
     /\ \E i \in 1..Len(e.operands) : i <= 2 /\ ReachesInvalid(e.operands[i])

\* C5: when the compile reaches a node with an unrecognized tag anywhere in the
\* tree, the whole call throws the invalid-expression error and returns no
\* text (and buildRuleExpression returns no record).
C5_InvalidVariantAborts ==
  ((Compiled \/ last.call = "buildRuleExpression") /\ ReachesInvalid(last.arg)) =>
    /\ last.ret.threw
    /\ last.ret.error = "Invalid expression type"
    /\ "value" \notin DOMAIN last.ret

C5_Witness ==
  /\ Compiled
  /\ last.arg.type = "operation"
  /\ Len(last.arg.operands) >= 2
  /\ last.arg.operands[1].type # "empty"
  /\ last.arg.operands[2].type = "function"
  /\ ReachesInvalid(last.arg.operands[2])
  /\ last.ret.threw

\* C6: an Operation with more than two operands compiles exactly as the same
\* node with its operand list cut to the first two entries.
C6_ExtraOperandsIgnored ==
  (Compiled /\ last.arg.type = "operation" /\ Len(last.arg.operands) > 2) =>
    last.ret = buildSource([last.arg EXCEPT !.operands = SubSeq(@, 1, 2)])

C6_Witness ==
  /\ Compiled
  /\ last.arg.type = "operation"
  /\ last.arg.operator = <<"*">>
  /\ Len(last.arg.operands) = 3
  /\ last.arg.operands[3].type = "empty"
  /\ ~last.ret.threw

RECURSIVE CommaSeparated(_, _)
\* the first n of the given texts, in order, with ", " between neighbours
CommaSeparated(es, n) ==
  IF n = 0 THEN <<>>
  ELSE IF n = 1 THEN Text(es[1])
  ELSE CommaSeparated(es, n - 1) \o <<",", " ">> \o Text(es[n])

\* C7: a FunctionCall whose arguments compile compiles to its name, "(", the
\* compiled arguments in stored order separated by ", ", and ")"; "name()"
\* when it has no argument.
C7_FunctionRendering ==
  (Compiled /\ last.arg.type = "function" /\ AllCompile(last.arg.args)) =>
    /\ ~last.ret.threw
    /\ last.ret.value =
         last.arg.name \o <<"(">> \o CommaSeparated(last.arg.args, Len(last.arg.args))
           \o <<")">>
    /\ Len(last.arg.args) = 0 => last.ret.value = last.arg.name \o <<"(", ")">>
    /\ last.arg.args = <<price, ten>> =>
         last.ret.value = last.arg.name
           \o <<"(", "p", "r", "i", "c", "e", ",", " ", "1", "0", ")">>

C7_Witness ==
  /\ Compiled
  /\ last.arg.type = "function"
  /\ Len(last.arg.args) = 3
  /\ last.arg.args[1].type = "function"
  /\ ~last.ret.threw

C7_WitnessNoArgs ==
  /\ Compiled
  /\ last.arg.type = "function"
  /\ last.arg.args = <<>>
  /\ last.ret.value = <<"a", "v", "g", "(", ")">>

DecimalDigits == <<"0", "1", "2", "3", "4", "5", "6", "7", "8", "9">>

IsDecimalDigit(c) == \E i \in 1..10 : DecimalDigits[i] = c

DigitValue(c) == (CHOOSE i \in 1..10 : DecimalDigits[i] = c) - 1

RECURSIVE NaturalOf(_)
\* the number a string of decimal digits denotes
NaturalOf(s) ==
  IF Len(s) = 0 THEN 0
  ELSE 10 * NaturalOf(SubSeq(s, 1, Len(s) - 1)) + DigitValue(s[Len(s)])

\* s is the decimal text of the integer n: an optional "-" exactly when n is
\* negative, then the digits of its magnitude without a leading zero
IsDecimalTextOf(s, n) ==
  /\ Len(s) >= 1
  /\ (s[1] = "-") = (n < 0)
  /\ LET magnitude == IF s[1] = "-" THEN Tail(s) ELSE s
     IN  /\ Len(magnitude) >= 1
         /\ \A i \in 1..Len(magnitude) : IsDecimalDigit(magnitude[i])
         /\ Len(magnitude) > 1 => magnitude[1] # "0"
         /\ NaturalOf(magnitude) = (IF n < 0 THEN 0 - n ELSE n)

\* C8: a Literal compiles to its value between double quotes, characters
\* unchanged, when the value is a string; to the decimal text of the value
\* when it is a number; to "True" / "False" when it is a boolean.
C8_LiteralRendering ==
  (Compiled /\ last.arg.type = "literal") =>
    /\ ~last.ret.threw
    /\ last.arg.value.typeof = "string" =>
         /\ Len(last.ret.value) = Len(last.arg.value.chars) + 2
         /\ last.ret.value[1] = "\""
         /\ last.ret.value[Len(last.ret.value)] = "\""
         /\ SubSeq(last.ret.value, 2, Len(last.ret.value) - 1) = last.arg.value.chars
    /\ last.arg.value.typeof = "number" =>
         IsDecimalTextOf(last.ret.value, last.arg.value.num)
    /\ last.arg.value.typeof = "boolean" =>
         last.ret.value = IF last.arg.value.bool THEN <<"T", "r", "u", "e">>
                          ELSE <<"F", "a", "l", "s", "e">>

C8_Witness ==
  /\ Compiled
  /\ last.arg.type = "literal"
  /\ last.arg.value = StringValue(<<"a", "\"", "b">>)
  /\ last.ret.value = <<"\"", "a", "\"", "b", "\"">>

C8_WitnessNumber ==
  /\ Compiled
  /\ last.arg.type = "literal"
  /\ last.arg.value = NumberValue(0 - 5)
  /\ last.ret.value = <<"-", "5">>

C8_WitnessBoolean ==
  /\ Compiled
  /\ last.arg.type = "literal"
  /\ last.arg.value = BooleanValue(FALSE)
  /\ last.ret.value = <<"F", "a", "l", "s", "e">>

RECURSIVE Relabel(_, _)
\* e with the return field of every node set to r
Relabel(e, r) ==
  CASE e.type = "function" ->
         [e EXCEPT !.return = r, !.args = [i \in 1..Len(@) |-> Relabel(@[i], r)]]
    [] e.type = "operation" ->
         [e EXCEPT !.return = r, !.operands = [i \in 1..Len(@) |-> Relabel(@[i], r)]]
    [] e.type \in {"literal", "variable"} -> [e EXCEPT !.return = r]
    [] OTHER -> e

\* e with the return field of its root alone set to r
RelabelRoot(e, r) == IF e.type \in RecognizedTags THEN [e EXCEPT !.return = r] ELSE e

\* C9: trees that differ only in return fields compile alike: setting the
\* return of the root, or of every node, to any data type changes neither the
\* text nor the outcome.
C9_ReturnNotConsulted ==
  Compiled =>
    \A r \in DataType :
      /\ buildSource(Relabel(last.arg, r)) = last.ret
      /\ buildSource(RelabelRoot(last.arg, r)) = last.ret

C9_Witness ==
  /\ Compiled
  /\ last.arg.type = "literal"
  /\ last.arg.value.typeof = "boolean"
  /\ last.arg.return = "string"
  /\ last.ret.value = <<"T", "r", "u", "e">>

C9_WitnessNested ==
  /\ Compiled
  /\ last.arg.type = "operation"
  /\ Len(last.arg.operands) = 2
  /\ last.arg.operands[2].type = "function"
  /\ ~last.ret.threw
  /\ Relabel(last.arg, "string") # last.arg

\* C10: no Operation node is built from, and no classification is returned
\* for, an operator symbol outside the recognized set.
C10_UnrecognizedRejected ==
  /\ last.call = "createOperation" =>
       ~(last.ret.type = "operation" /\ input.operator \notin OperationOperator)
  /\ last.call \in {"isArithmeticOperator", "isBooleanOperator"} =>
       ~(last.ret \in BOOLEAN /\ last.arg \notin OperationOperator)

\* C11: for a recognized operator, createOperation returns an Operation node
\* holding the operator and the operand list as given, with return "boolean"
\* for > >= < <= == != and or, and "number" for + - * /, whatever the operands.
C11_ReturnDerivedFromOperator ==
  (last.call = "createOperation" /\ input.operator \in OperationOperator) =>
    /\ last.ret.type = "operation"
    /\ last.ret.operator = input.operator
    /\ last.ret.operands = input.operands
    /\ DOMAIN last.ret = {"type", "operator", "operands", "return"}
    /\ input.operator \in BooleanOperators => last.ret.return = "boolean"
    /\ input.operator \in ArithmeticOperators => last.ret.return = "number"

C11_Witness ==
  /\ last.call = "createOperation"
  /\ input.operator = <<"<", "=">>
  /\ Len(input.operands) = 2
  /\ input.operands[1].type = "literal"
  /\ input.operands[1].return = "number"
  /\ last.ret.return = "boolean"

RECURSIVE ArityRespected(_)
\* every Operation node of e has one operand when its operator is "-" and two
\* otherwise
ArityRespected(e) ==
  /\ e.type = "operation" => Len(e.operands) = RequiredOperands(e.operator)
  /\ \A i \in 1..Len(Children(e)) : ArityRespected(Children(e)[i])

\* C12: after any sequence of editor actions from the empty root, every
\* Operation node of the current tree has exactly 1 operand when its operator
\* is unary ("-") and exactly 2 operands when it is binary.
C12_OperandCountMatchesArity == ArityRespected(rootExpression)

\* C13: no editor action changes an existing node or child list in place: the
\* root held before an action, read again after it, is what it was.
C13_NoInPlaceMutation == [][previous' = rootExpression]_vars

====
